---- MODULE Spec2Model ----
(***************************************************************************)
(* Porter Saathi backend (backend-generator/server.js): the rule-based     *)
(* intent classifier, the in-memory session store and the dialog handlers  *)
(* POST /api/v1/interpret and POST /api/v1/forms/:formId/start.            *)
(*                                                                         *)
(* A JavaScript string is a sequence of one-character strings, so that     *)
(* includes(), toLowerCase() and the regular expressions are computed.     *)
(* A JavaScript object is a function whose domain is its set of own        *)
(* properties; a property that was never assigned is absent.               *)
(***************************************************************************)
EXTENDS Integers, Sequences, FiniteSets, TLC

\* ------------------------------------------------------------------ bounds
\* Number of requests served in one behaviour.
MaxTurns == 5

\* ------------------------------------------------------- JavaScript values
null == [tag |-> "null"]
undefined == [tag |-> "undefined"]

\* obj[k], undefined when k is not an own property
Get(obj, k) == IF k \in DOMAIN obj THEN obj[k] ELSE undefined

\* obj[k] = v
SetProp(obj, k, v) == [p \in DOMAIN obj \cup {k} |-> IF p = k THEN v ELSE obj[p]]

\* !v for an object-valued v
Falsy(v) == v = null \/ v = undefined

EmptyObject == [p \in {} |-> null]

\* ------------------------------------------------------------ characters
UpperChars == <<"A","B","C","D","E","F","G","H","I","J","K","L","M",
                "N","O","P","Q","R","S","T","U","V","W","X","Y","Z">>
LowerChars == <<"a","b","c","d","e","f","g","h","i","j","k","l","m",
                "n","o","p","q","r","s","t","u","v","w","x","y","z">>
Digits == {"0","1","2","3","4","5","6","7","8","9"}

IsUpper(c) == \E i \in 1..26 : UpperChars[i] = c
IsLower(c) == \E i \in 1..26 : LowerChars[i] = c
IsDigit(c) == c \in Digits

LowerChar(c) == IF IsUpper(c) THEN LowerChars[CHOOSE i \in 1..26 : UpperChars[i] = c] ELSE c

\* a lower-casing that is left out
toLowerCase_asIs(s) == s

\* String.prototype.toLowerCase
toLowerCase(s) == [i \in 1..Len(s) |-> LowerChar(s[i])]

\* String.prototype.includes
includes(s, kw) == \E i \in 1..(Len(s) - Len(kw) + 1) : SubSeq(s, i, i + Len(kw) - 1) = kw

\* ------------------------------------------------------------ keywords
K_help == <<"h","e","l","p">>
K_sahayata == <<"s","a","h","a","y","a","t","a">>
K_emergency == <<"e","m","e","r","g","e","n","c","y">>
K_madad == <<"m","a","d","a","d">>
K_form == <<"f","o","r","m">>
K_onboard == <<"o","n","b","o","a","r","d">>
K_form_bhar == <<"f","o","r","m"," ","b","h","a","r">>
K_form_bharna == <<"f","o","r","m"," ","b","h","a","r","n","a">>
K_onboarding == <<"o","n","b","o","a","r","d","i","n","g">>
K_earn == <<"e","a","r","n">>
K_kamai == <<"k","a","m","a","i">>
K_kitni == <<"k","i","t","n","i">>
K_net_ka == <<"n","e","t"," ","k","a">>
K_net_kamai == <<"n","e","t"," ","k","a","m","a","i">>
K_after_expenses == <<"a","f","t","e","r"," ","e","x","p","e","n","s","e","s">>
K_baad == <<"b","a","a","d">>
K_net == <<"n","e","t">>
K_compare == <<"c","o","m","p","a","r","e">>
K_behtar == <<"b","e","h","t","a","r">>
K_pichle == <<"p","i","c","h","l","e">>
K_better == <<"b","e","t","t","e","r">>
K_today == <<"t","o","d","a","y">>
K_aaj == <<"a","a","j">>
K_yesterday == <<"y","e","s","t","e","r","d","a","y">>
K_kal == <<"k","a","l">>
K_week == <<"w","e","e","k">>
K_hafta == <<"h","a","f","t","a">>
K_pichle_hafta == <<"p","i","c","h","l","e"," ","h","a","f","t","a">>

\* ------------------------------------------------------------ classifier
detectDateRange(text) ==
  LET t == toLowerCase(text) IN
  IF includes(t, K_today) \/ includes(t, K_aaj) THEN "today"
  ELSE IF includes(t, K_yesterday) \/ includes(t, K_kal) THEN "yesterday"
  ELSE IF includes(t, K_week) \/ includes(t, K_hafta) \/ includes(t, K_pichle_hafta) THEN "last_week"
  ELSE "today"

\* every character of s[from..to] satisfies the class
AllLetters(s, from, to) == \A i \in from..to : IsUpper(s[i]) \/ IsLower(s[i])
AllUpper(s, from, to) == \A i \in from..to : IsUpper(s[i])
AllDigits(s, from, to) == \A i \in from..to : IsDigit(s[i])

\* t.match(/[a-zA-Z]{2}\d{1,2}[A-Z]{1,2}\d{1,4}/)
MatchVehicle(t) ==
  \E i \in 1..Len(t) : \E a \in 1..2 : \E b \in 1..2 : \E c \in 1..4 :
    /\ i + 1 + a + b + c <= Len(t)
    /\ AllLetters(t, i, i + 1)
    /\ AllDigits(t, i + 2, i + 1 + a)
    /\ AllUpper(t, i + 2 + a, i + 1 + a + b)
    /\ AllDigits(t, i + 2 + a + b, i + 1 + a + b + c)

\* t.match(/\d{4}/)
MatchFourDigits(t) == \E i \in 1..(Len(t) - 3) : AllDigits(t, i, i + 3)

\* a rule that takes any text for an answer
MatchDigitRun_anyText(t) == Len(t) > 0

\* t.match(/[0-9]+/)
MatchDigitRun(t) == \E i \in 1..Len(t) : IsDigit(t[i])

NoEntities == [p \in {} |-> "none"]

nlu(transcript) ==
  LET t == toLowerCase(transcript) IN
  IF includes(t, K_help) \/ includes(t, K_sahayata) \/ includes(t, K_emergency) \/ includes(t, K_madad)
  THEN [intent |-> "sahayata", entities |-> NoEntities]
  ELSE IF includes(t, K_form) \/ includes(t, K_onboard) \/ includes(t, K_form_bhar)
          \/ includes(t, K_form_bharna) \/ includes(t, K_onboarding)
  THEN [intent |-> "start_form", entities |-> NoEntities]
  ELSE IF includes(t, K_earn) \/ includes(t, K_kamai) \/ includes(t, K_kitni) \/ includes(t, K_net_ka)
          \/ includes(t, K_net_kamai) \/ includes(t, K_after_expenses) \/ includes(t, K_baad)
  THEN [intent |-> "query_earnings",
        entities |-> [date_range |-> detectDateRange(t),
                      after_expenses |-> includes(t, K_after_expenses) \/ includes(t, K_baad)
                                            \/ includes(t, K_net)]]
  ELSE IF includes(t, K_compare) \/ includes(t, K_behtar) \/ includes(t, K_pichle) \/ includes(t, K_better)
  THEN [intent |-> "compare_period", entities |-> [date_range |-> detectDateRange(t)]]
  ELSE IF MatchVehicle(t) \/ MatchFourDigits(t) \/ MatchDigitRun(t)
  THEN [intent |-> "form_field_answer", entities |-> NoEntities, raw |-> transcript]
  ELSE [intent |-> "small_talk", entities |-> NoEntities]

\* ------------------------------------------------------------ utterances
\* The transcripts clients send: the texts of the documented form flow and
\* one per keyword group.
\* "Ramesh Kumar"
U_ramesh == <<"R","a","m","e","s","h"," ","K","u","m","a","r">>
\* "MH12AB1234"
U_vehicle == <<"M","H","1","2","A","B","1","2","3","4">>
\* "call me at 98765 43210"
U_phone == <<"c","a","l","l"," ","m","e"," ","a","t"," ","9","8","7","6","5"," ","4","3","2","1","0">>
\* "Start form"
U_start == <<"S","t","a","r","t"," ","f","o","r","m">>
\* "HELP 108"
U_help == <<"H","E","L","P"," ","1","0","8">>
\* "Aaj ka net kamai kitni hai"
U_earn == <<"A","a","j"," ","k","a"," ","n","e","t"," ","k","a","m","a","i"," ","k","i","t","n","i"," ","h","a","i">>
\* "compare"
U_compare == <<"c","o","m","p","a","r","e">>
S_undefined == <<"u","n","d","e","f","i","n","e","d">>

Utterances == {U_ramesh, U_vehicle, U_phone, U_start, U_help, U_earn, U_compare}

\* nlu is a pure function of the transcript: its value on each utterance is
\* computed once
classified == [u \in Utterances |-> nlu(u)]

\* const nluResult = nlu(transcript || '')
classify(transcript) ==
  IF transcript \in Utterances THEN classified[transcript] ELSE nlu(transcript)

\* ------------------------------------------------------------ earnings
\* data/earnings.json as loaded at startup: one record with every field, one
\* whose penalties outweigh its income, one with the optional fields missing,
\* one with rewards only, one without gross earnings, one that nets to zero.
earningsData ==
  << [driver_id |-> "D1", gross_earnings |-> 1000, expenses |-> 200,
      penalties |-> <<[amount |-> 50]>>, rewards |-> <<[amount |-> 20]>>, reason |-> "late"],
     [driver_id |-> "D2", gross_earnings |-> 100, expenses |-> 300,
      penalties |-> <<[amount |-> 50], [amount |-> 25]>>, rewards |-> <<>>],
     [driver_id |-> "D3", gross_earnings |-> 400],
     [driver_id |-> "D4", gross_earnings |-> 0, expenses |-> 0,
      penalties |-> <<>>, rewards |-> <<[amount |-> 30], [amount |-> 15]>>],
     [driver_id |-> "D5", expenses |-> 120, penalties |-> <<[amount |-> 10]>>],
     [driver_id |-> "D6", gross_earnings |-> 500, expenses |-> 1000,
      rewards |-> <<[amount |-> 500]>>, reason |-> "repair"] >>

RECURSIVE SumAmounts(_)
\* arr.reduce((s,p) => s + p.amount, 0)
SumAmounts(arr) == IF arr = <<>> THEN 0 ELSE arr[1].amount + SumAmounts(Tail(arr))

\* v || d for a numeric or array property that may be missing
OrDefault(rec, k, d) == IF k \in DOMAIN rec THEN rec[k] ELSE d

\* a summary whose net is not allowed below zero
summaryOf_clamped(rec) ==
  LET gross == OrDefault(rec, "gross_earnings", 0)
      expenses == OrDefault(rec, "expenses", 0)
      penalty == SumAmounts(OrDefault(rec, "penalties", <<>>))
      rewards == SumAmounts(OrDefault(rec, "rewards", <<>>))
      net == gross - expenses - penalty + rewards
  IN [found |-> TRUE,
      breakdown |-> [gross |-> gross, expenses |-> expenses, penalty |-> penalty,
                     rewards |-> rewards, net |-> IF net < 0 THEN 0 ELSE net],
      reason |-> OrDefault(rec, "reason", "")]

\* the summary of a record that was found
summaryOf(rec) ==
  LET gross == OrDefault(rec, "gross_earnings", 0)
      expenses == OrDefault(rec, "expenses", 0)
      penalty == SumAmounts(OrDefault(rec, "penalties", <<>>))
      rewards == SumAmounts(OrDefault(rec, "rewards", <<>>))
      net == gross - expenses - penalty + rewards
  IN [found |-> TRUE,
      breakdown |-> [gross |-> gross, expenses |-> expenses, penalty |-> penalty,
                     rewards |-> rewards, net |-> net],
      reason |-> OrDefault(rec, "reason", "")]

\* a lookup that answers with the first record when the driver has none
computeEarningsSummary_anyRecord(driverId, dateRange) ==
  LET hits == {i \in 1..Len(earningsData) : earningsData[i].driver_id = driverId} IN
  IF hits = {} THEN summaryOf(earningsData[1])
  ELSE summaryOf(earningsData[CHOOSE i \in hits : \A j \in hits : i <= j])

computeEarningsSummary(driverId, dateRange) ==
  LET hits == {i \in 1..Len(earningsData) : earningsData[i].driver_id = driverId} IN
  IF hits = {} THEN [found |-> FALSE]
  ELSE summaryOf(earningsData[CHOOSE i \in hits : \A j \in hits : i <= j])

\* ------------------------------------------------------------ session store
\* Session ids are opaque strings: the ids in play, and NoSid for a missing
\* (or otherwise falsy) session_id in the request body.
NoSid == ""
SessionIds == {"s_4fzzzxjyl", "s_k2j8x0q1b"}

\* Math.random() is free to return any value, one already drawn included
genSessionId == SessionIds

\* session_id || genSessionId(): genSessionId runs only for a falsy session_id
sidChoices(session_id) == IF session_id # NoSid THEN {session_id} ELSE genSessionId

\* a missing driver_id
NoDriver == ""
DriverIds == {NoDriver, "D2", "D9"}

FormIds == {"onboard_doc", "kyc"}

VARIABLES
  sessions,   \* the store: session id -> session object
  req,        \* the request being served
  resp,       \* the response sent for it
  turns,      \* number of requests served
  frames,     \* the handler calls in progress, when turns are followed step by step
  store0      \* the store those calls found

vars == <<sessions, req, resp, turns, frames, store0>>

\* ------------------------------------------------------------ form
\* a form that starts at the second field
NewForm_atVehicle(formId) ==
  [formId |-> formId, currentField |-> "vehicle_registration", values |-> EmptyObject]

NewForm(formId) == [formId |-> formId, currentField |-> "name", values |-> EmptyObject]

FreshSession_withForm == [formState |-> NewForm("onboard_doc"), lastIntent |-> "null", locale |-> "hi-IN"]
FreshSession == [formState |-> null, lastIntent |-> "null", locale |-> "hi-IN"]

\* a lookup that starts every turn on a new session
getOrCreate_alwaysFresh(store, sid) == SetProp(store, sid, FreshSession)

\* a lookup that clears the form of the session it finds
getOrCreate_dropsForm(store, sid) ==
  IF Falsy(Get(store, sid)) THEN SetProp(store, sid, FreshSession)
  ELSE SetProp(store, sid, SetProp(store[sid], "formState", null))

\* if (!sessions[sid]) sessions[sid] = {formState: null, lastIntent: null, locale: 'hi-IN'}
getOrCreate(store, sid) ==
  IF Falsy(Get(store, sid)) THEN SetProp(store, sid, FreshSession) ELSE store

\* fs.currentField = ... after the name and after the vehicle number
fieldAfterName_stay == "name"
fieldAfterName_skip == "phone"
fieldAfterName == "vehicle_registration"
fieldAfterVehicle_back == "name"
fieldAfterVehicle_typo == "phone_number"
fieldAfterVehicle == "phone"

\* (ans.match(/\d+/g) || []).join('')
extractDigits(ans) == SelectSeq(ans, IsDigit)

\* digits || ans
phoneValue(ans) == IF extractDigits(ans) # <<>> THEN extractDigits(ans) ELSE ans

\* `${fs.values.f}`
Shown(values, f) == IF f \in DOMAIN values THEN values[f] ELSE S_undefined

Text(key, args) == [key |-> key, args |-> args]

\* the form_field_answer branch: the session after it, the text and the action
formFieldAnswer(session, ans) ==
  LET fs == Get(session, "formState") IN
  IF Falsy(fs)
  THEN [session |-> session, responseText |-> Text("no_form_active", <<>>), action |-> null]
  ELSE IF fs.currentField = "name"
  THEN [session |-> SetProp(session, "formState",
                      [fs EXCEPT !.values = SetProp(fs.values, "name", ans),
                                 !.currentField = fieldAfterName]),
        responseText |-> Text("name_set", <<ans>>),
        action |-> [type |-> "form_next", nextField |-> "vehicle_registration"]]
  ELSE IF fs.currentField = "vehicle_registration"
  THEN [session |-> SetProp(session, "formState",
                      [fs EXCEPT !.values = SetProp(fs.values, "vehicle_registration", ans),
                                 !.currentField = fieldAfterVehicle]),
        responseText |-> Text("vehicle_set", <<ans>>),
        action |-> [type |-> "form_next", nextField |-> "phone"]]
  ELSE IF fs.currentField = "phone"
  THEN LET values == SetProp(fs.values, "phone", phoneValue(ans))
           done == SetProp([fs EXCEPT !.values = values], "completed", TRUE)
       IN [session |-> SetProp(session, "formState", done),
           responseText |-> Text("form_done", <<Shown(values, "name"),
                                                 Shown(values, "vehicle_registration"),
                                                 Shown(values, "phone")>>),
           action |-> [type |-> "form_completed", values |-> values]]
  ELSE [session |-> session, responseText |-> Text("field_not_understood", <<>>), action |-> null]

\* ------------------------------------------------------------ POST /api/v1/interpret
\* the branch on nluResult.intent: the session after it, the text, card, action
dialog(session, nluResult, body) ==
  IF nluResult.intent = "query_earnings"
  THEN LET driver == IF body.driver_id # NoDriver THEN body.driver_id ELSE "D1"
           summary == computeEarningsSummary(driver, nluResult.entities.date_range)
       IN IF ~summary.found
          THEN [session |-> session, responseText |-> Text("no_earnings_record", <<>>),
                card |-> null, action |-> null]
          ELSE LET b == summary.breakdown IN
               [session |-> session,
                responseText |-> Text("earnings", <<b.net, b.gross, b.expenses, b.penalty, b.rewards>>),
                card |-> [title |-> b.net, bullets |-> <<b.gross, b.expenses, b.penalty, b.rewards>>],
                action |-> [type |-> "show_card"]]
  ELSE IF nluResult.intent = "start_form"
  THEN [session |-> SetProp(session, "formState", NewForm("onboard_doc")),
        responseText |-> Text("form_started", <<>>), card |-> null,
        action |-> [type |-> "start_form", field |-> "name"]]
  ELSE IF nluResult.intent = "form_field_answer"
  THEN LET r == formFieldAnswer(session, body.transcript) IN
       [session |-> r.session, responseText |-> r.responseText, card |-> null, action |-> r.action]
  ELSE IF nluResult.intent = "sahayata"
  THEN [session |-> session, responseText |-> Text("sahayata", <<>>), card |-> null,
        action |-> [type |-> "sahayata_prompt"]]
  ELSE IF nluResult.intent = "compare_period"
  THEN [session |-> session, responseText |-> Text("compare", <<>>), card |-> null,
        action |-> [type |-> "compare"]]
  ELSE [session |-> session, responseText |-> Text("demo_mode", <<>>), card |-> null, action |-> null]

\* a handler that keeps the last intent in every session of the store
interpret_sharedIntent(store, body, sid) ==
  LET store1 == getOrCreate(store, sid)
      nluResult == classify(body.transcript)
      store2 == [s \in DOMAIN store1 |-> SetProp(store1[s], "lastIntent", nluResult.intent)]
      out == dialog(store2[sid], nluResult, body)
  IN [sessions |-> SetProp(store2, sid, out.session),
      res |-> [session_id |-> sid, intent |-> nluResult.intent, entities |-> nluResult.entities,
               responseText |-> out.responseText, card |-> out.card, action |-> out.action]]

\* the whole handler: the store after it and the JSON it answers with
interpret(store, body, sid) ==
  LET store1 == getOrCreate(store, sid)
      nluResult == classify(body.transcript)
      session1 == SetProp(store1[sid], "lastIntent", nluResult.intent)
      out == dialog(session1, nluResult, body)
  IN [sessions |-> SetProp(store1, sid, out.session),
      res |-> [session_id |-> sid, intent |-> nluResult.intent, entities |-> nluResult.entities,
               responseText |-> out.responseText, card |-> out.card, action |-> out.action]]

\* ------------------------------------------------------------ POST /api/v1/forms/:formId/start
formsStart(store, formId, body, sid) ==
  LET session == IF Falsy(Get(store, sid)) THEN EmptyObject ELSE store[sid]
  IN [sessions |-> SetProp(store, sid, SetProp(session, "formState", NewForm(formId))),
      res |-> [session_id |-> sid, prompt |-> Text("first_field", <<>>)]]

\* ------------------------------------------------------------ behaviours
\* driver_id is read in the query_earnings branch only, so it varies there only
InterpretBodies ==
  [transcript : Utterances, session_id : {NoSid} \cup SessionIds, driver_id : {NoDriver}]
    \cup [transcript : {U_earn}, session_id : {NoSid} \cup SessionIds, driver_id : DriverIds]

StartBodies == [session_id : {NoSid} \cup SessionIds]

NoMessage == [path |-> "none"]

Init ==
  /\ sessions = EmptyObject
  /\ req = NoMessage
  /\ resp = NoMessage
  /\ turns = 0
  /\ frames = <<>>
  /\ store0 = EmptyObject

Interpret(body) ==
  /\ turns < MaxTurns
  /\ \E sid \in sidChoices(body.session_id) :
       LET out == interpret(sessions, body, sid) IN
       /\ sessions' = out.sessions
       /\ resp' = [path |-> "interpret", json |-> out.res]
  /\ req' = [path |-> "interpret", body |-> body]
  /\ turns' = turns + 1
  /\ UNCHANGED <<frames, store0>>

FormsStart(formId, body) ==
  /\ turns < MaxTurns
  /\ \E sid \in sidChoices(body.session_id) :
       LET out == formsStart(sessions, formId, body, sid) IN
       /\ sessions' = out.sessions
       /\ resp' = [path |-> "forms_start", json |-> out.res]
  /\ req' = [path |-> "forms_start", formId |-> formId, body |-> body]
  /\ turns' = turns + 1
  /\ UNCHANGED <<frames, store0>>

Next ==
  \/ \E body \in InterpretBodies : Interpret(body)
  \/ \E formId \in FormIds : \E body \in StartBodies : FormsStart(formId, body)

Spec == Init /\ [][Next]_vars

\* ------------------------------------------------------------ classification of composed utterances
\* Utterances built around an emergency keyword in lower, upper and mixed
\* case (or around none), after and before other keywords and digits.
E_help_lower == <<"h","e","l","p">>
E_help_upper == <<"H","E","L","P">>
E_help_mixed == <<"H","e","l","p">>
E_sahayata_lower == <<"s","a","h","a","y","a","t","a">>
E_sahayata_upper == <<"S","A","H","A","Y","A","T","A">>
E_sahayata_mixed == <<"S","a","h","a","y","a","t","a">>
E_emergency_lower == <<"e","m","e","r","g","e","n","c","y">>
E_emergency_upper == <<"E","M","E","R","G","E","N","C","Y">>
E_emergency_mixed == <<"E","m","e","r","g","e","n","c","y">>
E_madad_lower == <<"m","a","d","a","d">>
E_madad_upper == <<"M","A","D","A","D">>
E_madad_mixed == <<"M","a","d","a","d">>
\* ""
P_none == <<>>
\* "Start form "
P_form == <<"S","t","a","r","t"," ","f","o","r","m"," ">>
\* "kamai 12 "
P_kamai == <<"k","a","m","a","i"," ","1","2"," ">>
\* "Compare "
P_compare == <<"C","o","m","p","a","r","e"," ">>
\* ""
Q_none == <<>>
\* " 98765"
Q_digits == <<" ","9","8","7","6","5">>
\* " onboarding"
Q_onboarding == <<" ","o","n","b","o","a","r","d","i","n","g">>
\* " baad"
Q_baad == <<" ","b","a","a","d">>

EmergencyWords == {E_help_lower, E_help_upper, E_help_mixed, E_sahayata_lower, E_sahayata_upper, E_sahayata_mixed, E_emergency_lower, E_emergency_upper, E_emergency_mixed, E_madad_lower, E_madad_upper, E_madad_mixed}
Prefixes == {P_none, P_form, P_kamai, P_compare}
Suffixes == {Q_none, Q_digits, Q_onboarding, Q_baad}

ComposedUtterances == {p \o w \o q : p \in Prefixes, w \in EmergencyWords \cup {<<>>}, q \in Suffixes}

\* a session with the onboarding form waiting for the name
SessionAtName == [formState |-> NewForm("onboard_doc"), lastIntent |-> "start_form", locale |-> "hi-IN"]

\* the session id of the turns that are followed one by one
TurnSid == "s_4fzzzxjyl"

\* a request has arrived and the store is empty or holds a session at name
InitClassify ==
  /\ sessions \in {EmptyObject, [s \in {TurnSid} |-> SessionAtName]}
  /\ req \in [path : {"arrived"},
              body : [transcript : ComposedUtterances, session_id : {NoSid, TurnSid},
                      driver_id : {NoDriver}]]
  /\ resp = NoMessage
  /\ turns = 0
  /\ frames = <<>>
  /\ store0 = EmptyObject

ServeArrived == req.path = "arrived" /\ Interpret(req.body)

NextClassify == ServeArrived

SpecClassify == InitClassify /\ [][NextClassify]_vars

\* ------------------------------------------------------------ turns followed step by step
\* Two interpret requests for one session id are in flight at once. Each call
\* of the handler is followed through its statements: the session lookup, the
\* classification, the branch on the intent and the response.
Slots == {1, 2}

\* a thread that takes up another request in the middle of a callback
runToCompletion_preempted(fr, i) == TRUE

\* The handler is a synchronous callback of a single-threaded event loop: a
\* request is taken up only when no other callback is on the stack.
runToCompletion(fr, i) == \A j \in DOMAIN fr \ {i} : fr[j].pc \in {"arrived", "done"}

\* stores the session can be in when the two requests arrive
SessionIdle == [formState |-> null, lastIntent |-> "small_talk", locale |-> "hi-IN"]
SessionAtVehicle ==
  [formState |-> [formId |-> "onboard_doc", currentField |-> "vehicle_registration",
                  values |-> [name |-> U_vehicle]],
   lastIntent |-> "form_field_answer", locale |-> "hi-IN"]
SessionAtPhone ==
  [formState |-> [formId |-> "onboard_doc", currentField |-> "phone",
                  values |-> [name |-> U_vehicle, vehicle_registration |-> U_phone]],
   lastIntent |-> "form_field_answer", locale |-> "hi-IN"]

TurnStores ==
  {EmptyObject} \cup
  {[s \in {TurnSid} |-> x] : x \in {SessionIdle, SessionAtName, SessionAtVehicle, SessionAtPhone}}

TurnBodies == [transcript : Utterances, session_id : {TurnSid}, driver_id : {NoDriver}]

InitTurns ==
  /\ store0 \in TurnStores
  /\ sessions = store0
  /\ frames \in [Slots -> [pc : {"arrived"}, body : TurnBodies]]
  /\ req = NoMessage
  /\ resp = NoMessage
  /\ turns = 0

\* const sid = session_id || genSessionId(); if (!sessions[sid]) sessions[sid] = {...}
Lookup(i) ==
  /\ frames[i].pc = "arrived"
  /\ runToCompletion(frames, i)
  /\ \E sid \in sidChoices(frames[i].body.session_id) :
       /\ sessions' = getOrCreate(sessions, sid)
       /\ frames' = [frames EXCEPT ![i] = [pc |-> "classify", body |-> frames[i].body, sid |-> sid]]
  /\ UNCHANGED <<req, resp, turns, store0>>

\* const nluResult = nlu(transcript || ''); sessions[sid].lastIntent = nluResult.intent
Classify(i) ==
  /\ frames[i].pc = "classify"
  /\ LET f == frames[i]
         nluResult == classify(f.body.transcript)
     IN /\ sessions' = SetProp(sessions, f.sid, SetProp(sessions[f.sid], "lastIntent", nluResult.intent))
        /\ frames' = [frames EXCEPT ![i] = [pc |-> "dialog", body |-> f.body, sid |-> f.sid,
                                            nluResult |-> nluResult]]
  /\ UNCHANGED <<req, resp, turns, store0>>

\* the branch on nluResult.intent
Dialog(i) ==
  /\ frames[i].pc = "dialog"
  /\ LET f == frames[i]
         out == dialog(sessions[f.sid], f.nluResult, f.body)
     IN /\ sessions' = SetProp(sessions, f.sid, out.session)
        /\ frames' = [frames EXCEPT ![i] =
                        [pc |-> "respond", body |-> f.body,
                         res |-> [session_id |-> f.sid, intent |-> f.nluResult.intent,
                                  entities |-> f.nluResult.entities,
                                  responseText |-> out.responseText, card |-> out.card,
                                  action |-> out.action]]]
  /\ UNCHANGED <<req, resp, turns, store0>>

\* res.json({...})
Respond(i) ==
  /\ frames[i].pc = "respond"
  /\ req' = [path |-> "interpret", body |-> frames[i].body]
  /\ resp' = [path |-> "interpret", json |-> frames[i].res]
  /\ frames' = [frames EXCEPT ![i] = [pc |-> "done", body |-> frames[i].body, res |-> frames[i].res]]
  /\ turns' = turns + 1
  /\ UNCHANGED <<sessions, store0>>

NextTurns ==
  \/ \E i \in Slots : Lookup(i)
  \/ \E i \in Slots : Classify(i)
  \/ \E i \in Slots : Dialog(i)
  \/ \E i \in Slots : Respond(i)

SpecTurns == InitTurns /\ [][NextTurns]_vars

\* ------------------------------------------------------------ earnings queries
\* An earnings query has arrived, for any driver of the dataset, for an unknown
\* one or for none, on a new session or on one at any stage of the form.
EarningsDrivers == {NoDriver, "D1", "D2", "D3", "D4", "D5", "D6", "D9"}

\* "kal ki kamai baad mein"
U_earn_kal == <<"k","a","l"," ","k","i"," ","k","a","m","a","i"," ","b","a","a","d"," ","m","e","i","n">>

InitEarnings ==
  /\ sessions \in TurnStores
  /\ req \in [path : {"arrived"},
              body : [transcript : {U_earn, U_earn_kal}, session_id : {NoSid, TurnSid},
                      driver_id : EarningsDrivers]]
  /\ resp = NoMessage
  /\ turns = 0
  /\ frames = <<>>
  /\ store0 = EmptyObject

NextEarnings == ServeArrived

SpecEarnings == InitEarnings /\ [][NextEarnings]_vars

\* ------------------------------------------------------------ answers to the form
\* A text with or without digits has arrived for a session at any stage of the
\* form, the completed one included.
\* ""
A_none == <<>>
\* "call me at "
A_call == <<"c","a","l","l"," ","m","e"," ","a","t"," ">>
\* "Ramesh "
A_ramesh == <<"R","a","m","e","s","h"," ">>
\* "no. "
A_no == <<"n","o","."," ">>
\* ""
B_none == <<>>
\* "98765"
B_five == <<"9","8","7","6","5">>
\* "7"
B_one == <<"7">>
\* "MH12AB1234"
B_vehicle == <<"M","H","1","2","A","B","1","2","3","4">>
\* ""
C_none == <<>>
\* " 43210"
C_five == <<" ","4","3","2","1","0">>
\* " ok"
C_ok == <<" ","o","k">>

AnswerUtterances ==
  {a \o b \o c : a \in {A_none, A_call, A_ramesh, A_no},
                 b \in {B_none, B_five, B_one, B_vehicle},
                 c \in {C_none, C_five, C_ok}}

SessionCompleted ==
  [formState |-> [formId |-> "onboard_doc", currentField |-> "phone",
                  values |-> [name |-> U_vehicle, vehicle_registration |-> U_phone,
                              phone |-> <<"9","8","7","6","5","4","3","2","1","0">>],
                  completed |-> TRUE],
   lastIntent |-> "form_field_answer", locale |-> "hi-IN"]

InitAnswer ==
  /\ sessions \in TurnStores \cup {[s \in {TurnSid} |-> SessionCompleted]}
  /\ req \in [path : {"arrived"},
              body : [transcript : AnswerUtterances, session_id : {NoSid, TurnSid},
                      driver_id : {NoDriver}]]
  /\ resp = NoMessage
  /\ turns = 0
  /\ frames = <<>>
  /\ store0 = EmptyObject

NextAnswer == ServeArrived

SpecAnswer == InitAnswer /\ [][NextAnswer]_vars

\* ------------------------------------------------------------ vocabulary of the properties
\* the form of session s in a store: null when the session or the form is missing
FormOf(store, s) ==
  IF s \in DOMAIN store /\ ~Falsy(Get(store[s], "formState")) THEN store[s].formState ELSE null

HasForm(store, s) == FormOf(store, s) # null

IsCompleted(fs) == "completed" \in DOMAIN fs /\ fs.completed = TRUE

\* position in name -> vehicle_registration -> phone -> completed
StageRank(fs) ==
  IF IsCompleted(fs) THEN 4
  ELSE IF fs.currentField = "name" THEN 1
  ELSE IF fs.currentField = "vehicle_registration" THEN 2
  ELSE IF fs.currentField = "phone" THEN 3
  ELSE 0

\* values.f is set and equals v
ValueIs(values, f, v) == f \in DOMAIN values /\ values[f] = v

\* the step serves an interpret turn that runs on session s
TurnOn(s) == req'.path = "interpret" /\ resp'.json.session_id = s

\* the step serves an interpret turn of the given intent on session s
IntentOn(s, intent) == TurnOn(s) /\ resp'.json.intent = intent

\* the step starts a form on session s, by a start_form turn or by the start-form call
StartOn(s) ==
  \/ IntentOn(s, "start_form")
  \/ req'.path = "forms_start" /\ resp'.json.session_id = s

\* ------------------------------------------------------------ C1
\* C1 as claimed: whatever the operation, the stage of a session's form never
\* moves back in name -> vehicle_registration -> phone -> completed.
C1_NeverMovesBack ==
  [][\A s \in DOMAIN sessions :
       HasForm(sessions, s) =>
         /\ HasForm(sessions', s)
         /\ StageRank(FormOf(sessions', s)) >= StageRank(FormOf(sessions, s))]_vars

\* C1 amended: every operation other than a start (a start_form turn or the
\* start-form call) keeps the form and never moves its stage back; a start
\* replaces the form by one at name, whatever the stage was.
C1_ForwardExceptStart ==
  [][\A s \in DOMAIN sessions' :
       IF StartOn(s)
       THEN FormOf(sessions', s).currentField = "name" /\ ~IsCompleted(FormOf(sessions', s))
       ELSE HasForm(sessions, s) =>
              /\ HasForm(sessions', s)
              /\ StageRank(FormOf(sessions', s)) >= StageRank(FormOf(sessions, s))]_vars

\* an answer turn has just taken a form from vehicle_registration on to phone
C1_Witness ==
  /\ resp.path = "interpret"
  /\ resp.json.action = [type |-> "form_next", nextField |-> "phone"]
  /\ FormOf(sessions, resp.json.session_id).currentField = "phone"

\* ------------------------------------------------------------ C2
\* C2: a form_field_answer turn on a session whose form is completed leaves
\* every entry of its values as it was.
C2_NoWriteAfterCompleted ==
  [][\A s \in DOMAIN sessions :
       (HasForm(sessions, s) /\ IsCompleted(FormOf(sessions, s)) /\ IntentOn(s, "form_field_answer"))
         => FormOf(sessions', s).values = FormOf(sessions, s).values]_vars

\* ------------------------------------------------------------ C3
\* C3: the documented form flow. A start_form turn puts the form at name; at
\* name, the turn "Ramesh Kumar" stores it as the name and moves to
\* vehicle_registration; there, "MH12AB1234" moves to phone; there, "call me at
\* 98765 43210" stores 9876543210, completes the form and answers with
\* form_completed carrying the three values.
C3_FormFlow ==
  [][\A s \in DOMAIN sessions' :
       /\ IntentOn(s, "start_form") => FormOf(sessions', s).currentField = "name"
       /\ (TurnOn(s) /\ HasForm(sessions, s) /\ ~IsCompleted(FormOf(sessions, s))) =>
            LET before == FormOf(sessions, s)
                after == FormOf(sessions', s)
                text == req'.body.transcript
            IN /\ (before.currentField = "name" /\ text = U_ramesh) =>
                    /\ ValueIs(after.values, "name", U_ramesh)
                    /\ after.currentField = "vehicle_registration"
               /\ (before.currentField = "vehicle_registration" /\ text = U_vehicle) =>
                    /\ ValueIs(after.values, "vehicle_registration", U_vehicle)
                    /\ after.currentField = "phone"
               /\ (before.currentField = "phone" /\ text = U_phone) =>
                    /\ ValueIs(after.values, "phone", <<"9","8","7","6","5","4","3","2","1","0">>)
                    /\ IsCompleted(after)
                    /\ resp'.json.action = [type |-> "form_completed", values |-> after.values]
                    /\ \A f \in DOMAIN before.values : ValueIs(after.values, f, before.values[f])]_vars

\* ------------------------------------------------------------ C5
\* C5: a turn that passes an id already in the store runs on the session stored
\* under that id and not on a fresh one. It answers under the same id, adds no
\* session and keeps the session's locale; a turn that neither starts a form
\* nor answers a field leaves formState as it was, and an answer turn on an
\* active form keeps the form, its formId and every value collected so far.
C5_KnownIdKeepsSession ==
  [][(req'.path = "interpret" /\ req'.body.session_id \in DOMAIN sessions) =>
       LET s == req'.body.session_id
           before == sessions[s]
           after == sessions'[s]
           intent == resp'.json.intent
       IN /\ resp'.json.session_id = s
          /\ DOMAIN sessions' = DOMAIN sessions
          /\ DOMAIN before \subseteq DOMAIN after
          /\ "locale" \in DOMAIN before => after.locale = before.locale
          /\ intent \notin {"start_form", "form_field_answer"} => after.formState = before.formState
          /\ (intent = "form_field_answer" /\ HasForm(sessions, s)) =>
               /\ HasForm(sessions', s)
               /\ after.formState.formId = before.formState.formId
               /\ DOMAIN before.formState.values \subseteq DOMAIN after.formState.values]_vars

\* a turn that changes no form has run on a session that had already collected
\* the name and the vehicle number, and they are still there
C5_Witness ==
  /\ req.path = "interpret"
  /\ req.body.session_id # NoSid
  /\ resp.json.intent = "small_talk"
  /\ HasForm(sessions, req.body.session_id)
  /\ DOMAIN FormOf(sessions, req.body.session_id).values = {"name", "vehicle_registration"}

\* ------------------------------------------------------------ C6
\* C6: a turn that supplies a session_id the store does not hold is answered
\* under a newly generated id, not under the id it supplied.
C6_UnknownIdIsReplaced ==
  [][(req'.path = "interpret" /\ req'.body.session_id # NoSid
        /\ req'.body.session_id \notin DOMAIN sessions)
       => resp'.json.session_id # req'.body.session_id]_vars

\* ------------------------------------------------------------ C7
\* C7: a turn that supplies no session_id runs under an id that no session of
\* the store has, on a session that is fresh before the turn's own effect.
C7_MintedIdIsNew ==
  [][(req'.path = "interpret" /\ req'.body.session_id = NoSid)
       => resp'.json.session_id \notin DOMAIN sessions]_vars

\* ------------------------------------------------------------ C9
\* the driver whose record a turn looks up: driver_id || 'D1'
DriverOf(body) == IF body.driver_id # NoDriver THEN body.driver_id ELSE "D1"

HasRecord(driver) == \E i \in 1..Len(earningsData) : earningsData[i].driver_id = driver

\* C9: a query_earnings turn for a driver without an earnings record answers
\* with the apology text, no card and no directive, and leaves formState as it
\* was (null on a session the turn created).
C9_NoRecordIsNoError ==
  [][(req'.path = "interpret" /\ resp'.json.intent = "query_earnings"
        /\ ~HasRecord(DriverOf(req'.body)))
       => /\ resp'.json.responseText = Text("no_earnings_record", <<>>)
          /\ resp'.json.card = null
          /\ resp'.json.action = null
          /\ FormOf(sessions', resp'.json.session_id) = FormOf(sessions, resp'.json.session_id)]_vars

\* the apology has been sent on a session with a form in progress
C9_Witness ==
  /\ req.path = "interpret"
  /\ req.body.driver_id = "D9"
  /\ resp.json.intent = "query_earnings"
  /\ resp.json.responseText.key = "no_earnings_record"
  /\ HasForm(sessions, resp.json.session_id)

\* ------------------------------------------------------------ C10
\* C10: a form_field_answer turn on a session without an active form answers
\* with the 'no form active' guidance, no card and no directive, and the
\* session's formState is null after it.
C10_AnswerWithoutForm ==
  [][(req'.path = "interpret" /\ resp'.json.intent = "form_field_answer"
        /\ ~HasForm(sessions, resp'.json.session_id))
       => /\ resp'.json.responseText = Text("no_form_active", <<>>)
          /\ resp'.json.card = null
          /\ resp'.json.action = null
          /\ sessions'[resp'.json.session_id].formState = null]_vars

\* the guidance has been sent to a session that existed before the turn
C10_Witness ==
  /\ req.path = "interpret"
  /\ req.body.session_id # NoSid
  /\ turns >= 2
  /\ resp.json.intent = "form_field_answer"
  /\ resp.json.responseText.key = "no_form_active"
  /\ sessions[resp.json.session_id].formState = null

\* ------------------------------------------------------------ C4
EmergencyKeywords == {K_help, K_sahayata, K_emergency, K_madad}

\* u contains an emergency keyword, in any letter case
ContainsEmergency(u) ==
  \E w \in EmergencyKeywords : \E i \in 1..(Len(u) - Len(w) + 1) :
    \A k \in 1..Len(w) : LowerChar(u[i + k - 1]) = w[k]

\* C4: a turn whose utterance contains an emergency keyword, in any letter
\* case and whatever else it contains, is classified sahayata and answered with
\* the sahayata_prompt directive.
C4_EmergencyFirst ==
  (resp.path = "interpret" /\ ContainsEmergency(req.body.transcript)) =>
    /\ resp.json.intent = "sahayata"
    /\ resp.json.action = [type |-> "sahayata_prompt"]

\* answered: an upper-case emergency keyword after a form keyword and before digits
C4_Witness ==
  /\ resp.path = "interpret"
  /\ req.body.transcript = P_form \o E_help_upper \o Q_digits
  /\ resp.json.intent = "sahayata"

\* ------------------------------------------------------------ C8
\* the store and the two responses when turn a is served whole, then turn b
Serial(store, a, b) ==
  LET first == interpret(store, a, a.session_id)
      second == interpret(first.sessions, b, b.session_id)
  IN [sessions |-> second.sessions, first |-> first.res, second |-> second.res]

BothDone == \A i \in Slots : frames[i].pc = "done"

\* what the two calls left: the store, and the response of the slot served first and second
Outcome(i, j) == [sessions |-> sessions, first |-> frames[i].res, second |-> frames[j].res]

\* C8: of two turns submitted together for one session id, one runs to its
\* response before the other starts, and once both have answered the session
\* and the two responses are those of one of the two serial orders.
C8_TurnsAreAtomic ==
  /\ Cardinality({i \in Slots : frames[i].pc \in {"classify", "dialog", "respond"}}) <= 1
  /\ BothDone =>
       \/ Outcome(1, 2) = Serial(store0, frames[1].body, frames[2].body)
       \/ Outcome(2, 1) = Serial(store0, frames[2].body, frames[1].body)

\* both turns have answered, and the two serial orders end in different sessions:
\* an answer and a start_form on a form that waits for the vehicle number
C8_Witness ==
  /\ BothDone
  /\ store0 = [s \in {TurnSid} |-> SessionAtVehicle]
  /\ frames[1].body.transcript = U_phone
  /\ frames[2].body.transcript = U_start
  /\ Serial(store0, frames[1].body, frames[2].body).sessions
       # Serial(store0, frames[2].body, frames[1].body).sessions
  /\ FormOf(sessions, TurnSid).currentField = "name"

\* ------------------------------------------------------------ C11
\* the record the lookup finds for a driver: the first one with that driver_id
RecordOf(driver) ==
  earningsData[CHOOSE i \in 1..Len(earningsData) :
                 /\ earningsData[i].driver_id = driver
                 /\ \A j \in 1..(i - 1) : earningsData[j].driver_id # driver]

\* a numeric field of a record, 0 when it is missing
Amount(rec, k) == IF k \in DOMAIN rec THEN rec[k] ELSE 0

RECURSIVE TotalUpTo(_, _)
TotalUpTo(arr, n) == IF n = 0 THEN 0 ELSE TotalUpTo(arr, n - 1) + arr[n].amount

\* the sum of the amounts of a list field of a record, 0 when it is missing
Total(rec, k) == IF k \in DOMAIN rec THEN TotalUpTo(rec[k], Len(rec[k])) ELSE 0

\* C11: for a record that is found, the net in the answer (text and card) is
\* gross - expenses - sum of penalties + sum of rewards, missing fields counted
\* as 0 and nothing clamped; gross 1000, expenses 200, penalties [50], rewards
\* [20] gives 770.
C11_NetFormula ==
  (resp.path = "interpret" /\ resp.json.intent = "query_earnings" /\ HasRecord(DriverOf(req.body))) =>
    LET rec == RecordOf(DriverOf(req.body))
        net == Amount(rec, "gross_earnings") - Amount(rec, "expenses")
                 - Total(rec, "penalties") + Total(rec, "rewards")
    IN /\ resp.json.card # null
       /\ resp.json.card.title = net
       /\ resp.json.responseText.key = "earnings"
       /\ resp.json.responseText.args[1] = net
       /\ (Amount(rec, "expenses") + Total(rec, "penalties")
             > Amount(rec, "gross_earnings") + Total(rec, "rewards")) => resp.json.card.title < 0
       /\ DriverOf(req.body) = "D1" => resp.json.card.title = 770

\* an answer with a negative net: the record without gross earnings
C11_Witness ==
  /\ resp.path = "interpret"
  /\ resp.json.intent = "query_earnings"
  /\ req.body.driver_id = "D5"
  /\ resp.json.card # null
  /\ resp.json.card.title = -130

\* ------------------------------------------------------------ C12
SessionFields == {"formState", "lastIntent", "locale"}

\* C12: the start-form call that creates a session leaves a session record
\* with the standard fields formState, lastIntent and locale, whose form is at
\* name, with no values and not completed, as a start_form turn does.
C12_StartCallLikeStartTurn ==
  [][(req'.path = "forms_start" /\ resp'.json.session_id \notin DOMAIN sessions) =>
       LET after == sessions'[resp'.json.session_id] IN
       /\ DOMAIN after = SessionFields
       /\ after.formState.currentField = "name"
       /\ DOMAIN after.formState.values = {}
       /\ ~IsCompleted(after.formState)]_vars

\* ------------------------------------------------------------ C13
\* C13: a form_field_answer turn on a form at name or at vehicle_registration
\* stores the raw utterance under that field, leaves the other values as they
\* were, moves currentField to the next field and answers with form_next whose
\* nextField is the new currentField.
C13_AnswerAdvances ==
  [][\A s \in DOMAIN sessions :
       (IntentOn(s, "form_field_answer") /\ HasForm(sessions, s)
          /\ FormOf(sessions, s).currentField \in {"name", "vehicle_registration"}) =>
         LET before == FormOf(sessions, s)
             after == FormOf(sessions', s)
             f == before.currentField
         IN /\ ValueIs(after.values, f, req'.body.transcript)
            /\ DOMAIN after.values = DOMAIN before.values \cup {f}
            /\ \A g \in DOMAIN before.values \ {f} : ValueIs(after.values, g, before.values[g])
            /\ after.currentField = (IF f = "name" THEN "vehicle_registration" ELSE "phone")
            /\ resp'.json.action = [type |-> "form_next", nextField |-> after.currentField]]_vars

\* the vehicle number has been stored, raw, next to a name stored before
C13_Witness ==
  /\ resp.path = "interpret"
  /\ resp.json.action = [type |-> "form_next", nextField |-> "phone"]
  /\ LET fs == FormOf(sessions, resp.json.session_id) IN
       /\ ValueIs(fs.values, "name", U_vehicle)
       /\ ValueIs(fs.values, "vehicle_registration", U_phone)
       /\ req.body.transcript = U_phone

\* ------------------------------------------------------------ C14
\* C14: a form that is completed is at its terminal stage: its currentField is
\* none of name, vehicle_registration, phone.
C14_CompletedIsTerminal ==
  \A s \in DOMAIN sessions :
    (HasForm(sessions, s) /\ IsCompleted(FormOf(sessions, s))) =>
      FormOf(sessions, s).currentField \notin {"name", "vehicle_registration", "phone"}

\* ------------------------------------------------------------ C15
\* C15: a start_form turn leaves the session with a form that has the fixed
\* formId, currentField name, no values and no completed property, whatever
\* the formState was, and answers with the start_form directive.
C15_StartFormReplaces ==
  [][(req'.path = "interpret" /\ resp'.json.intent = "start_form") =>
       LET after == sessions'[resp'.json.session_id].formState IN
       /\ DOMAIN after = {"formId", "currentField", "values"}
       /\ after.formId = "onboard_doc"
       /\ after.currentField = "name"
       /\ DOMAIN after.values = {}
       /\ resp'.json.action = [type |-> "start_form", field |-> "name"]]_vars

\* a start_form turn has been served last in a behaviour long enough to have
\* completed a form first, on a session the caller named
C15_Witness ==
  /\ req.path = "interpret"
  /\ req.body.session_id # NoSid
  /\ resp.json.intent = "start_form"
  /\ turns = MaxTurns
  /\ FormOf(sessions, resp.json.session_id) = NewForm("onboard_doc")

\* ------------------------------------------------------------ C16
PassiveIntents == {"sahayata", "query_earnings", "compare_period", "small_talk"}

\* C16: a turn classified sahayata, query_earnings, compare_period or
\* small_talk changes nothing of the session but lastIntent: formState, with
\* its currentField, values and completed, is what it was before the turn
\* (null on a session the turn created), form in progress or not.
C16_PassiveTurnsKeepForm ==
  [][(req'.path = "interpret" /\ resp'.json.intent \in PassiveIntents) =>
       LET s == resp'.json.session_id
           after == sessions'[s]
       IN /\ after.lastIntent = resp'.json.intent
          /\ IF s \in DOMAIN sessions
             THEN /\ DOMAIN after = DOMAIN sessions[s] \cup {"lastIntent"}
                  /\ \A k \in DOMAIN sessions[s] \ {"lastIntent"} : after[k] = sessions[s][k]
             ELSE /\ after.formState = null
                  /\ DOMAIN after = SessionFields]_vars

\* an emergency turn has been served on a session whose form is completed
C16_Witness ==
  /\ resp.path = "interpret"
  /\ resp.json.intent = "sahayata"
  /\ HasForm(sessions, resp.json.session_id)
  /\ IsCompleted(FormOf(sessions, resp.json.session_id))

\* ------------------------------------------------------------ C17
\* C17: a turn or a start-form call changes the record of the session it is
\* addressed to and of no other: every other session of the store is after it
\* what it was before.
C17_OtherSessionsUntouched ==
  [][\A s \in DOMAIN sessions :
       s # resp'.json.session_id => (s \in DOMAIN sessions' /\ sessions'[s] = sessions[s])]_vars

\* a turn has been served on one session while another one has a form in progress
C17_Witness ==
  /\ resp.path = "interpret"
  /\ \E s \in DOMAIN sessions :
       /\ s # resp.json.session_id
       /\ HasForm(sessions, s)
       /\ FormOf(sessions, s).currentField = "phone"
       /\ Get(sessions[s], "lastIntent") # resp.json.intent

\* ------------------------------------------------------------ C18
\* C18: a session's formState is null or a form whose currentField is one of
\* the stages name, vehicle_registration, phone, and no turn is answered with
\* 'field not understood'.
C18_FieldAlwaysUnderstood ==
  /\ \A s \in DOMAIN sessions :
       HasForm(sessions, s) =>
         FormOf(sessions, s).currentField \in {"name", "vehicle_registration", "phone"}
  /\ resp.path = "interpret" => resp.json.responseText.key # "field_not_understood"

\* an answer turn has found a form started by the start-form call under another
\* form id, past its first two fields, and has been understood
C18_Witness ==
  /\ resp.path = "interpret"
  /\ resp.json.intent = "form_field_answer"
  /\ resp.json.action # null
  /\ resp.json.action.type = "form_completed"
  /\ FormOf(sessions, resp.json.session_id).formId = "kyc"

\* ------------------------------------------------------------ C19
\* C19: the values of a form are those of the fields before its currentField,
\* so a completed form has name, vehicle_registration and phone; every start
\* empties the values, so each value was written after the most recent start.
C19_CompletedHasAllValues ==
  \A s \in DOMAIN sessions :
    HasForm(sessions, s) =>
      LET fs == FormOf(sessions, s) IN
      /\ fs.currentField = "name" => DOMAIN fs.values = {}
      /\ fs.currentField = "vehicle_registration" => DOMAIN fs.values = {"name"}
      /\ (fs.currentField = "phone" /\ ~IsCompleted(fs)) =>
           DOMAIN fs.values = {"name", "vehicle_registration"}
      /\ IsCompleted(fs) => DOMAIN fs.values = {"name", "vehicle_registration", "phone"}

\* a form started by the start-form call on a session that a turn had created
\* has been completed
C19_Witness ==
  \E s \in DOMAIN sessions :
    /\ HasForm(sessions, s)
    /\ IsCompleted(FormOf(sessions, s))
    /\ FormOf(sessions, s).formId = "kyc"
    /\ "locale" \in DOMAIN sessions[s]

\* ------------------------------------------------------------ C20
HasDigit(text) == \E i \in 1..Len(text) : text[i] \in Digits

OnlyDigits(text) == \A i \in 1..Len(text) : text[i] \in Digits

\* C20: a phone value, once written, is a non-empty string of digits, and the
\* turn that completes a form has a digit in its utterance: the phone step
\* never falls back to the raw text.
C20_PhoneIsDigits ==
  /\ \A s \in DOMAIN sessions :
       (HasForm(sessions, s) /\ "phone" \in DOMAIN FormOf(sessions, s).values) =>
         /\ Len(FormOf(sessions, s).values.phone) > 0
         /\ OnlyDigits(FormOf(sessions, s).values.phone)
  /\ (resp.path = "interpret" /\ resp.json.action # null /\ resp.json.action.type = "form_completed") =>
       /\ HasDigit(req.body.transcript)
       /\ ~OnlyDigits(req.body.transcript) => resp.json.action.values.phone # req.body.transcript

\* the phone has been taken out of a text with letters, spaces and two digit runs
C20_Witness ==
  /\ resp.path = "interpret"
  /\ req.body.transcript = A_call \o B_five \o C_five
  /\ resp.json.action # null
  /\ resp.json.action.type = "form_completed"
  /\ resp.json.action.values.phone = <<"9","8","7","6","5","4","3","2","1","0">>

====
